---------------------------- MODULE Spec2Model ----------------------------
(***************************************************************************)
(* A model of src/daily_trader.py: the stock picker that scores the        *)
(* symbols of a universe, keeps the top N, splits a budget over them and   *)
(* hands the plan to Telegram.                                             *)
(*                                                                         *)
(* Numbers.  The program computes with Python floats.  The model computes  *)
(* with exact rationals <<n, d>> (d > 0, lowest terms), i.e. with the real *)
(* numbers the floats stand for.  Two places where floats and reals part   *)
(* are kept visible: round() at a decimal tie (RoundChoices) and division  *)
(* by zero (ZeroDivisionError in allocate_budget, NaN in pct_change).      *)
(* Floats that are inf or nan on input are outside the model.              *)
(***************************************************************************)
EXTENDS Integers, Sequences, FiniteSets, TLC

VARIABLES
    pc,               \* position of the process
    raw_budget,       \* the text given for the budget (--budget or the prompt)
    budget,           \* the parsed budget
    exit_status,      \* process exit status once it has ended
    UNIVERSE,         \* module configuration, lines 19-24
    TOP_N,
    TAKE_PROFIT_PCT,
    STOP_LOSS_PCT,
    TELEGRAM_TOKEN,
    TELEGRAM_CHAT_ID,
    idx,              \* pick_top_symbols: position of the for loop in universe
    fetched,          \* pick_top_symbols: per universe entry, what fetch_history gave
    df,               \* the close column handed to compute_score last
    rsi_reading,      \* what RSIIndicator(close, 14).rsi().iloc[-1] gave for df
    score_obj,        \* the last value compute_score returned
    results,          \* pick_top_symbols: the results list
    picks,            \* the value pick_top_symbols returned
    alloc_in,         \* allocate_budget: the picks it was called with
    plan,             \* the value allocate_budget returned
    sent,             \* messages handed to send_telegram, in order
    printed,          \* messages send_telegram printed locally
    posted,           \* messages the Telegram API accepted
    send_result       \* the value send_telegram returned last

vars == <<pc, raw_budget, budget, exit_status, UNIVERSE, TOP_N, TAKE_PROFIT_PCT,
          STOP_LOSS_PCT, TELEGRAM_TOKEN, TELEGRAM_CHAT_ID, idx, fetched, df,
          rsi_reading, score_obj, results, picks, alloc_in, plan, sent, printed,
          posted, send_result>>

\* Python's None, where a record or a list is expected
None == [none |-> TRUE]
\* a float variable not assigned yet, and the float NaN
Unset == <<>>
NaN == <<0, 0>>

(***************************************************************************)
(* Exact arithmetic for the float expressions of the program.              *)
(***************************************************************************)
Abs(x) == IF x < 0 THEN -x ELSE x

RECURSIVE GCD(_, _)
GCD(a, b) == IF b = 0 THEN a ELSE GCD(b, a % b)

RNorm(n, d) ==
    LET g == GCD(Abs(n), Abs(d))
        s == IF d < 0 THEN -1 ELSE 1
    IN  <<(s * n) \div g, (s * d) \div g>>

R(n) == <<n, 1>>
Cents(c) == RNorm(c, 100)

\* sums and comparisons go over the least common denominator, products cancel
\* crosswise before multiplying
RAdd(x, y) ==
    LET g == GCD(x[2], y[2])
    IN  RNorm(x[1] * (y[2] \div g) + y[1] * (x[2] \div g), (x[2] \div g) * y[2])

RNeg(x) == <<-x[1], x[2]>>
RSub(x, y) == RAdd(x, RNeg(y))

RMul(x, y) ==
    LET g == GCD(Abs(x[1]), y[2])
        h == GCD(Abs(y[1]), x[2])
    IN  RNorm((x[1] \div g) * (y[1] \div h), (x[2] \div h) * (y[2] \div g))

RDiv(x, y) == RMul(x, IF y[1] < 0 THEN <<-y[2], -y[1]>> ELSE <<y[2], y[1]>>)

RLt(x, y) ==
    LET g == GCD(x[2], y[2])
    IN  x[1] * (y[2] \div g) < y[1] * (x[2] \div g)

RLe(x, y) ==
    LET g == GCD(x[2], y[2])
    IN  x[1] * (y[2] \div g) <= y[1] * (x[2] \div g)

RAbs(x) == <<Abs(x[1]), x[2]>>
IsZero(x) == x[1] = 0

RECURSIVE Pow10(_)
Pow10(k) == IF k = 0 THEN 1 ELSE 10 * Pow10(k - 1)

RECURSIVE IsPowerOfTwo(_)
IsPowerOfTwo(d) == d = 1 \/ (d % 2 = 0 /\ IsPowerOfTwo(d \div 2))

\* round(x, k).  Python rounds the float's exact binary value to the nearest
\* multiple of 10^-k, half to even.  A decimal tie is an exact tie of the float
\* only when the value is dyadic; any other decimal tie is stored slightly
\* above or below and goes to either neighbour.
RoundChoices(x, k) ==
    LET scale == Pow10(k)
        g == GCD(scale, x[2])
        num == x[1] * (scale \div g)
        den == x[2] \div g
        q == num \div den
        r == num - q * den
    IN  IF 2 * r < den THEN {RNorm(q, scale)}
        ELSE IF 2 * r > den THEN {RNorm(q + 1, scale)}
        ELSE IF IsPowerOfTwo(x[2])
             THEN {RNorm(IF q % 2 = 0 THEN q ELSE q + 1, scale)}
             ELSE {RNorm(q, scale), RNorm(q + 1, scale)}

(***************************************************************************)
(* compute_score, lines 45-132.                                            *)
(***************************************************************************)
MinCloses == 20
MomentumLookback == 10
Sma20Window == 20
Sma50Window == 50

Last(s) == s[Len(s)]

\* close.iloc[-k]
ILocNeg(s, k) == s[Len(s) - k + 1]

\* s[lo] + ... + s[hi], summed by halves
RECURSIVE SumRange(_, _, _)
SumRange(s, lo, hi) ==
    IF lo > hi THEN R(0)
    ELSE IF lo = hi THEN s[lo]
    ELSE LET mid == (lo + hi) \div 2
         IN  RAdd(SumRange(s, lo, mid), SumRange(s, mid + 1, hi))

\* close.rolling(w).mean().iloc[-1], for len(close) >= w
RollingMean(s, w) == RDiv(SumRange(s, Len(s) - w + 1, Len(s)), R(w))

Momentum10d(close) ==
    IF Len(close) >= MomentumLookback
    THEN RSub(RDiv(ILocNeg(close, 1), ILocNeg(close, MomentumLookback)), R(1))
    ELSE R(0)

\* lines 71-78: NaN and any exception of the indicator become the neutral 50.0
RsiValue(reading) == IF reading.outcome = "value" THEN R(reading.value) ELSE R(50)

Sma20(close) ==
    IF Len(close) >= Sma20Window THEN RollingMean(close, Sma20Window) ELSE Last(close)

Sma50(close) ==
    IF Len(close) >= Sma50Window THEN RollingMean(close, Sma50Window) ELSE Last(close)

RsiComponent_Through30(rsi) ==
    IF RLe(rsi, R(30)) THEN RNorm(8, 10)
    ELSE IF RLe(R(40), rsi) /\ RLe(rsi, R(70)) THEN RNorm(7, 10)
    ELSE IF RLt(R(75), rsi) THEN RNorm(-8, 10)
    ELSE R(0)

\* lines 95-100
RsiComponent(rsi) ==
    IF RLt(rsi, R(30)) THEN RNorm(8, 10)
    ELSE IF RLe(R(40), rsi) /\ RLe(rsi, R(70)) THEN RNorm(7, 10)
    ELSE IF RLt(R(75), rsi) THEN RNorm(-8, 10)
    ELSE R(0)

SmaComponent_OrEqual(sma20, sma50) ==
    IF RLe(sma50, sma20) THEN RNorm(8, 10) ELSE RNorm(-2, 10)

\* lines 103-106
SmaComponent(sma20, sma50) ==
    IF RLt(sma50, sma20) THEN RNorm(8, 10) ELSE RNorm(-2, 10)

\* close.pct_change(1).iloc[-1]: 0/0 is NaN in pandas, no exception
PctChange1(close) ==
    IF Len(close) < 2 THEN NaN
    ELSE IF IsZero(ILocNeg(close, 2)) /\ IsZero(ILocNeg(close, 1)) THEN NaN
    ELSE RSub(RDiv(ILocNeg(close, 1), ILocNeg(close, 2)), R(1))

\* lines 109-114
RecentComponent(close) ==
    LET recent_change == PctChange1(close)
    IN  IF recent_change = NaN THEN R(0) ELSE RMul(recent_change, R(5))

\* The except clause at lines 128-132 turns any other exception into None; the
\* frames of the model hold a float Close column, for which nothing raises.
compute_score(close, reading) ==
    IF Len(close) < MinCloses THEN None
    ELSE LET momentum_10d == Momentum10d(close)
             rsi == RsiValue(reading)
             sma20 == Sma20(close)
             sma50 == Sma50(close)
             score == RAdd(RAdd(RAdd(RMul(momentum_10d, R(10)), RsiComponent(rsi)),
                                SmaComponent(sma20, sma50)),
                           RecentComponent(close))
         IN  [score |-> score, momentum_10d |-> momentum_10d, rsi |-> rsi,
              sma20 |-> sma20, sma50 |-> sma50, price |-> Last(close)]

(***************************************************************************)
(* Price frames.  A frame is the Close column of what fetch_history        *)
(* returned, oldest first.  Frame(...) sets the closes the score reads     *)
(* one by one (iloc[-1], [-2], [-10], [-11]) and fills the rest with base. *)
(***************************************************************************)
MaxLevel == 2

Frame(len, base, c11, c10, c2, c1) ==
    [i \in 1..len |->
        LET k == len - i + 1
        IN  IF k = 1 THEN c1
            ELSE IF k = 2 THEN c2
            ELSE IF k = 10 THEN c10
            ELSE IF k = 11 THEN c11
            ELSE base]

\* closes of 50, 100, 150, ... dollars
PriceLevels == {Cents(5000 * k) : k \in 1..MaxLevel}

FrameLens == {MinCloses - 1, MinCloses, Sma50Window}

\* Yahoo data holds closes of 0.0 now and then (yfinance has a repair option for
\* them); the frames here let only the latest close, or the latest two, be 0.
ScoreFrames ==
    {Frame(len, base, c11, c10, c[2], c[1]) :
        len \in FrameLens, base \in PriceLevels, c11 \in PriceLevels, c10 \in PriceLevels,
        c \in (PriceLevels \X PriceLevels) \cup ({R(0)} \X (PriceLevels \cup {R(0)}))}

\* what the third-party RSIIndicator(close, window=14).rsi().iloc[-1] may give:
\* a number between 0 and 100, NaN, or an exception
RsiReadings ==
    {[outcome |-> "value", value |-> v] : v \in {25, 30, 35, 40, 50, 70, 72, 75, 80, 100}}
        \cup {[outcome |-> "nan", value |-> 0], [outcome |-> "raise", value |-> 0]}

(***************************************************************************)
(* Configuration read at import, lines 19-24, and the values the variables *)
(* of a run hold before the run has touched them.                          *)
(***************************************************************************)
DefaultTopN == 3
DefaultTakeProfit == RNorm(10, 100)
DefaultStopLoss == RNorm(5, 100)

ConfigDefault ==
    /\ UNIVERSE = <<>>
    /\ TOP_N = DefaultTopN
    /\ TAKE_PROFIT_PCT = DefaultTakeProfit
    /\ STOP_LOSS_PCT = DefaultStopLoss
    /\ TELEGRAM_TOKEN = <<>>
    /\ TELEGRAM_CHAT_ID = <<>>

NoInput ==
    /\ raw_budget = <<>>
    /\ budget = Unset
    /\ exit_status = <<>>

NoScan ==
    /\ idx = 1
    /\ fetched = <<>>
    /\ results = <<>>
    /\ picks = <<>>

NoFrame ==
    /\ df = <<>>
    /\ rsi_reading = [outcome |-> "nan", value |-> 0]
    /\ score_obj = None

NoReport ==
    /\ alloc_in = <<>>
    /\ plan = <<>>
    /\ sent = <<>>
    /\ printed = <<>>
    /\ posted = <<>>
    /\ send_result = <<>>

(***************************************************************************)
(* SpecScore: compute_score applied to one frame.                          *)
(***************************************************************************)
InitScore ==
    /\ pc = "compute_score"
    /\ df \in ScoreFrames
    /\ rsi_reading \in RsiReadings
    /\ score_obj = None
    /\ ConfigDefault /\ NoInput /\ NoScan /\ NoReport

ScoreFrame ==
    /\ pc = "compute_score"
    /\ score_obj' = compute_score(df, rsi_reading)
    /\ pc' = "scored"
    /\ UNCHANGED <<raw_budget, budget, exit_status, UNIVERSE, TOP_N, TAKE_PROFIT_PCT,
                   STOP_LOSS_PCT, TELEGRAM_TOKEN, TELEGRAM_CHAT_ID, idx, fetched, df,
                   rsi_reading, results, picks, alloc_in, plan, sent, printed,
                   posted, send_result>>

NextScore == ScoreFrame

SpecScore == InitScore /\ [][NextScore]_vars

Scored == pc = "scored" /\ score_obj # None

Flat20 == [i \in 1..MinCloses |-> R(100)]

\* C4 as stated: for 20 closes all equal to 100, compute_score returns
\* momentum_10d = 0, rsi = 50.0, sma20 = sma50 = 100 and a score within 0.01 of -0.2.
C4_AsStated ==
    (pc = "scored" /\ df = Flat20) =>
        /\ score_obj # None
        /\ score_obj.momentum_10d = R(0)
        /\ score_obj.rsi = R(50)
        /\ score_obj.sma20 = R(100)
        /\ score_obj.sma50 = R(100)
        /\ RLe(RAbs(RAdd(score_obj.score, RNorm(2, 10))), RNorm(1, 100))

\* C4 amended: for 20 closes all equal to 100, compute_score returns
\* momentum_10d = 0 and sma20 = sma50 = 100; rsi is the indicator's reading, or
\* 50.0 when the reading is NaN or the indicator raised; the score is the RSI
\* term minus 0.2, which is 0.5 at rsi = 50 and -0.2 only for rsi in [30, 40)
\* or (70, 75].
C4_FlatSeries ==
    (pc = "scored" /\ df = Flat20) =>
        /\ score_obj # None
        /\ score_obj.momentum_10d = R(0)
        /\ score_obj.sma20 = R(100)
        /\ score_obj.sma50 = R(100)
        /\ rsi_reading.outcome # "value" => score_obj.rsi = R(50)
        /\ rsi_reading.outcome = "value" => score_obj.rsi = R(rsi_reading.value)
        /\ score_obj.rsi = R(50) => score_obj.score = RNorm(5, 10)
        /\ (score_obj.score = RNorm(-2, 10)) <=>
             \/ (RLe(R(30), score_obj.rsi) /\ RLt(score_obj.rsi, R(40)))
             \/ (RLt(R(70), score_obj.rsi) /\ RLe(score_obj.rsi, R(75)))
        /\ score_obj.score \in {RNorm(6, 10), RNorm(5, 10), RNorm(-2, 10), R(-1)}

C4_Witness ==
    /\ pc = "scored"
    /\ df = Flat20
    /\ rsi_reading.outcome = "nan"
    /\ score_obj.score = RNorm(5, 10)

\* C8 as stated: momentum_10d is latest close / close 10 sessions earlier - 1,
\* the close 10 sessions before the latest being close.iloc[-11].
C8_AsStated ==
    Scored =>
        score_obj.momentum_10d = RSub(RDiv(ILocNeg(df, 1), ILocNeg(df, 11)), R(1))

\* C10: the score is momentum_10d * 10 + RSI term + SMA term + one-day change * 5,
\* the RSI term being +0.8 below 30, +0.7 on [40, 70], -0.8 above 75 and 0
\* elsewhere (30 and 75 included), the SMA term +0.8 when sma20 > sma50 and -0.2
\* otherwise (equal included), the one-day change counting 0 when undefined.
C10_ScoreIsSumOfTerms ==
    Scored =>
        LET o == score_obj
            rsiTerm == IF o.rsi[1] < 30 * o.rsi[2] THEN RNorm(4, 5)
                       ELSE IF o.rsi[1] >= 40 * o.rsi[2] /\ o.rsi[1] <= 70 * o.rsi[2]
                            THEN RNorm(7, 10)
                       ELSE IF o.rsi[1] > 75 * o.rsi[2] THEN RNorm(-4, 5)
                       ELSE R(0)
            smaTerm == IF o.sma20 # o.sma50 /\ RLe(o.sma50, o.sma20)
                       THEN RNorm(4, 5) ELSE RNorm(-1, 5)
            prev == df[Len(df) - 1]
            last == df[Len(df)]
            dayTerm == IF prev[1] = 0 THEN R(0)
                       ELSE RNorm(5 * (last[1] * prev[2] - prev[1] * last[2]),
                                  prev[1] * last[2])
        IN  o.score = RAdd(RAdd(RMul(o.momentum_10d, R(10)), rsiTerm),
                           RAdd(smaTerm, dayTerm))

C10_Witness ==
    /\ Scored
    /\ score_obj.rsi = R(75)
    /\ score_obj.sma20 = score_obj.sma50
    /\ IsZero(df[Len(df) - 1])

(***************************************************************************)
(* allocate_budget, lines 173-199.  round() has two outcomes at a decimal  *)
(* tie that is no exact binary tie, so a call has a set of possible plans. *)
(***************************************************************************)
PerSymbol_FloorDiv(b, n) == R((b[1] \div b[2]) \div n)

\* line 178
PerSymbol(b, n) == RDiv(b, R(n))

\* lines 182-184
Shares(per, price) == RoundChoices(RDiv(per, price), 4)

\* line 185
Cost(shares, price) == RoundChoices(RMul(shares, price), 2)

TakeProfitPrice_Minus(price, take_profit_pct) ==
    RoundChoices(RMul(price, RSub(R(1), take_profit_pct)), 2)

\* line 186
TakeProfitPrice(price, take_profit_pct) ==
    RoundChoices(RMul(price, RAdd(R(1), take_profit_pct)), 2)

\* line 187
StopLossPrice(price, stop_loss_pct) ==
    RoundChoices(RMul(price, RSub(R(1), stop_loss_pct)), 2)

\* lines 188-198, for one pick p and one outcome a of round(per, 2)
PlanEntries(p, per, a, take_profit_pct, stop_loss_pct) ==
    UNION {
        {[symbol |-> p.symbol, price |-> p.price, score |-> p.score, rsi |-> p.rsi,
          allocation |-> a, shares |-> sh, cost |-> c,
          take_profit_price |-> t, stop_loss_price |-> l] :
            c \in Cost(sh, p.price),
            t \in TakeProfitPrice(p.price, take_profit_pct),
            l \in StopLossPrice(p.price, stop_loss_pct)} :
        sh \in Shares(per, p.price)}

\* line 182 divides by the pick's price: ZeroDivisionError for a price of 0.0
AllocateRaises(picks_) == \E i \in 1..Len(picks_) : IsZero(picks_[i].price)

\* the plans a call that does not raise may return
allocate_budget(b, picks_, take_profit_pct, stop_loss_pct) ==
    LET n == Len(picks_)
    IN  IF n = 0 THEN {<<>>}
        ELSE LET per == PerSymbol(b, n)
                 entries(i, a) ==
                     PlanEntries(picks_[i], per, a, take_profit_pct, stop_loss_pct)
             IN  UNION {
                     {pl \in [1..n -> UNION {entries(i, a) : i \in 1..n}] :
                         \A i \in 1..n : pl[i] \in entries(i, a)} :
                     a \in RoundChoices(per, 2)}

\* the call in plan_trades_from_budget, line 243; an exception it raises is
\* caught nowhere and ends the process with a traceback and status 1
AllocateBudget ==
    /\ pc = "allocate_budget"
    /\ alloc_in' = picks
    /\ IF AllocateRaises(picks)
       THEN /\ pc' = "crashed"
            /\ exit_status' = <<1>>
            /\ plan' = plan
       ELSE /\ plan' \in allocate_budget(budget, picks, TAKE_PROFIT_PCT, STOP_LOSS_PCT)
            /\ pc' = "format_message"
            /\ exit_status' = exit_status
    /\ UNCHANGED <<raw_budget, budget, UNIVERSE, TOP_N, TAKE_PROFIT_PCT,
                   STOP_LOSS_PCT, TELEGRAM_TOKEN, TELEGRAM_CHAT_ID, idx, fetched, df,
                   rsi_reading, score_obj, results, picks, sent, printed,
                   posted, send_result>>

(***************************************************************************)
(* SpecAlloc: allocate_budget applied to a budget and a list of picks.     *)
(* The picks are ordered by score, as pick_top_symbols returns them.       *)
(***************************************************************************)
MaxPicks == 2

Pick(sym, priceCents, scoreTenths) ==
    [symbol |-> sym, price |-> Cents(priceCents), score |-> RNorm(scoreTenths, 10),
     rsi |-> R(50), momentum_10d |-> R(0), sma20 |-> Cents(priceCents),
     sma50 |-> Cents(priceCents)]

AllocPool ==
    {Pick(<<"A">>, 10000, 20), Pick(<<"B">>, 15000, 10), Pick(<<"C">>, 30000, 10),
     Pick(<<"D">>, 300, 5), Pick(<<"E">>, 50, 5), Pick(<<"F">>, 10, 0),
     Pick(<<"G">>, 0, -92)}

RECURSIVE SeqsUpTo(_, _)
SeqsUpTo(S, n) ==
    IF n = 0 THEN {<<>>}
    ELSE LET shorter == SeqsUpTo(S, n - 1)
         IN  shorter \cup {Append(q, x) : q \in shorter, x \in S}

ScoreOrdered(s) == \A i \in 1..(Len(s) - 1) : RLe(s[i + 1].score, s[i].score)

AllocPicks == {s \in SeqsUpTo(AllocPool, MaxPicks) : ScoreOrdered(s)}

AllocBudgets ==
    {R(900), R(1000), RNorm(75, 100), RNorm(5, 100), RNorm(10001, 100),
     RNorm(10005, 1000), R(0), RNorm(-2005, 100)}

TakeProfits == {DefaultTakeProfit, RNorm(4, 100), RNorm(1, 100)}

StopLosses == {DefaultStopLoss, RNorm(1, 2)}

InitAlloc ==
    /\ pc = "allocate_budget"
    /\ budget \in AllocBudgets
    /\ picks \in AllocPicks
    /\ TAKE_PROFIT_PCT \in TakeProfits
    /\ STOP_LOSS_PCT \in StopLosses
    /\ UNIVERSE = <<>>
    /\ TOP_N = DefaultTopN
    /\ TELEGRAM_TOKEN = <<>>
    /\ TELEGRAM_CHAT_ID = <<>>
    /\ raw_budget = <<>>
    /\ exit_status = <<>>
    /\ idx = 1
    /\ fetched = <<>>
    /\ results = <<>>
    /\ NoFrame /\ NoReport

NextAlloc == AllocateBudget

SpecAlloc == InitAlloc /\ [][NextAlloc]_vars

Returned == pc = "format_message"

RECURSIVE SumAllocation(_, _)
SumAllocation(pl, k) ==
    IF k = 0 THEN R(0) ELSE RAdd(pl[k].allocation, SumAllocation(pl, k - 1))

\* C3: for a non-empty plan, the allocations add up to round(budget, 2) within
\* count(picks) * 0.01.
C3_AllocationSum ==
    (Returned /\ Len(picks) > 0) =>
        \A rb \in RoundChoices(budget, 2) :
            RLe(RAbs(RSub(SumAllocation(plan, Len(plan)), rb)), RNorm(Len(picks), 100))

C3_Witness ==
    /\ Returned
    /\ Len(plan) = 2
    /\ budget = RNorm(5, 100)
    /\ SumAllocation(plan, 2) # budget

\* C5 as stated: for every pick price > 0,
\* |take_profit_price / price - 1 - take_profit_pct| <= 0.01.
C5_AsStated ==
    Returned =>
        \A i \in 1..Len(plan) :
            RLt(R(0), plan[i].price) =>
                RLe(RAbs(RSub(RSub(RDiv(plan[i].take_profit_price, plan[i].price), R(1)),
                              TAKE_PROFIT_PCT)),
                    RNorm(1, 100))

\* C5 amended: the take-profit price is within half a cent of
\* price * (1 + take_profit_pct), so for every pick price >= 0.50,
\* |take_profit_price / price - 1 - take_profit_pct| <= 0.01.
C5_TakeProfitRoundTrip ==
    Returned =>
        \A i \in 1..Len(plan) :
            /\ RLe(RAbs(RSub(plan[i].take_profit_price,
                             RMul(plan[i].price, RAdd(R(1), TAKE_PROFIT_PCT)))),
                   RNorm(5, 1000))
            /\ RLe(RNorm(1, 2), plan[i].price) =>
                RLe(RAbs(RSub(RSub(RDiv(plan[i].take_profit_price, plan[i].price), R(1)),
                              TAKE_PROFIT_PCT)),
                    RNorm(1, 100))

C5_Witness ==
    /\ Returned
    /\ \E i \in 1..Len(plan) :
        /\ plan[i].price = RNorm(1, 2)
        /\ plan[i].take_profit_price = RNorm(51, 100)
        /\ TAKE_PROFIT_PCT = RNorm(1, 100)

\* Beside C9: whenever allocate_budget does return, the plan is as C9 says.
C9_PlansReturned ==
    Returned =>
        /\ picks = alloc_in
        /\ Len(plan) = Len(picks)
        /\ \A i \in 1..Len(picks) :
            /\ plan[i].symbol = picks[i].symbol
            /\ plan[i].price = picks[i].price
            /\ plan[i].score = picks[i].score
            /\ plan[i].rsi = picks[i].rsi

\* C9 as stated: allocate_budget returns an empty plan for no picks and
\* otherwise one entry per pick, in the picks' order, with the pick's symbol,
\* price, score and rsi; the picks are left as they were.
C9_AsStated ==
    pc # "allocate_budget" =>
        /\ Returned
        /\ picks = alloc_in
        /\ Len(plan) = Len(picks)
        /\ \A i \in 1..Len(picks) :
            /\ plan[i].symbol = picks[i].symbol
            /\ plan[i].price = picks[i].price
            /\ plan[i].score = picks[i].score
            /\ plan[i].rsi = picks[i].rsi

(***************************************************************************)
(* Texts.  A text is a sequence of one-character strings.                  *)
(***************************************************************************)
Digits == {"0", "1", "2", "3", "4", "5", "6", "7", "8", "9"}

DigitValue(c) ==
    CASE c = "0" -> 0 [] c = "1" -> 1 [] c = "2" -> 2 [] c = "3" -> 3 [] c = "4" -> 4
      [] c = "5" -> 5 [] c = "6" -> 6 [] c = "7" -> 7 [] c = "8" -> 8 [] c = "9" -> 9

\* str.strip()
RECURSIVE Strip(_)
Strip(t) ==
    IF Len(t) = 0 THEN t
    ELSE IF t[1] = " " THEN Strip(Tail(t))
    ELSE IF t[Len(t)] = " " THEN Strip(SubSeq(t, 1, Len(t) - 1))
    ELSE t

UpperChar(c) ==
    CASE c = "a" -> "A" [] c = "b" -> "B" [] c = "c" -> "C" [] OTHER -> c

\* str.upper()
Upper(t) == [i \in 1..Len(t) |-> UpperChar(t[i])]

Count(t, chars) == Cardinality({i \in 1..Len(t) : t[i] \in chars})

FloatOk_AnyDots(t) ==
    LET u == Strip(t)
    IN  /\ \A i \in 1..Len(u) : u[i] \in Digits \cup {"."}
        /\ Count(u, Digits) >= 1

\* Whether float(t) succeeds, for texts of digits, dots, blanks and letters:
\* blanks around are dropped, then digits with at most one dot and at least
\* one digit.  (Signs, exponents, inf and nan are not among the texts used.)
FloatOk(t) ==
    LET u == Strip(t)
    IN  /\ \A i \in 1..Len(u) : u[i] \in Digits \cup {"."}
        /\ Count(u, Digits) >= 1
        /\ Count(u, {"."}) <= 1

RECURSIVE DigitsNumber(_)
DigitsNumber(u) ==
    IF Len(u) = 0 THEN 0
    ELSE 10 * DigitsNumber(SubSeq(u, 1, Len(u) - 1)) + DigitValue(u[Len(u)])

\* float(t) for a text FloatOk accepts
FloatValue(t) ==
    LET u == Strip(t)
        dots == {i \in 1..Len(u) : u[i] = "."}
        dot == IF dots = {} THEN Len(u) + 1 ELSE CHOOSE i \in dots : \A j \in dots : i <= j
        ds == SelectSeq(u, LAMBDA c : c \in Digits)
        decimals == Cardinality({i \in (dot + 1)..Len(u) : u[i] \in Digits})
    IN  RNorm(DigitsNumber(ds), Pow10(decimals))

BudgetTexts ==
    {<<"9", "0", "0">>, <<" ", ".", "7", "5", " ">>, <<>>, <<".">>, <<"9", "x">>,
     <<"1", ".", "2", ".", "3">>, <<"1", " ", "2">>}

(***************************************************************************)
(* __main__, lines 251-269.                                                *)
(***************************************************************************)
\* lines 254-257 and 266-267: --budget absent, a float, or refused by argparse
\* (type=float), which prints usage and exits with status 2
ParseArgs ==
    /\ pc = "main"
    /\ \/ /\ pc' = "input"
          /\ UNCHANGED <<raw_budget, budget, exit_status>>
       \/ \E arg \in BudgetTexts :
            /\ raw_budget' = arg
            /\ IF FloatOk(arg)
               THEN /\ budget' = FloatValue(arg)
                    /\ pc' = "plan_trades_from_budget"
                    /\ exit_status' = exit_status
               ELSE /\ budget' = budget
                    /\ pc' = "exited"
                    /\ exit_status' = <<2>>
    /\ UNCHANGED <<UNIVERSE, TOP_N, TAKE_PROFIT_PCT, STOP_LOSS_PCT, TELEGRAM_TOKEN,
                   TELEGRAM_CHAT_ID, idx, fetched, df, rsi_reading, score_obj, results,
                   picks, alloc_in, plan, sent, printed, posted, send_result>>

\* lines 259-265: input() gave a line, or raised EOFError
PromptBudget ==
    /\ pc = "input"
    /\ \/ \E line \in BudgetTexts :
            /\ raw_budget' = line
            /\ IF FloatOk(line)
               THEN /\ budget' = FloatValue(line)
                    /\ pc' = "plan_trades_from_budget"
                    /\ exit_status' = exit_status
               ELSE /\ budget' = budget
                    /\ pc' = "exited"
                    /\ exit_status' = <<1>>
       \/ /\ pc' = "exited"
          /\ exit_status' = <<1>>
          /\ UNCHANGED <<raw_budget, budget>>
    /\ UNCHANGED <<UNIVERSE, TOP_N, TAKE_PROFIT_PCT, STOP_LOSS_PCT, TELEGRAM_TOKEN,
                   TELEGRAM_CHAT_ID, idx, fetched, df, rsi_reading, score_obj, results,
                   picks, alloc_in, plan, sent, printed, posted, send_result>>

(***************************************************************************)
(* pick_top_symbols, lines 135-170.                                        *)
(***************************************************************************)
\* lines 236-237 and 136-137: plan_trades_from_budget calls pick_top_symbols
EnterPlanTrades ==
    /\ pc = "plan_trades_from_budget"
    /\ pc' = "pick_top_symbols"
    /\ idx' = 1
    /\ results' = <<>>
    /\ UNCHANGED <<raw_budget, budget, exit_status, UNIVERSE, TOP_N, TAKE_PROFIT_PCT,
                   STOP_LOSS_PCT, TELEGRAM_TOKEN, TELEGRAM_CHAT_ID, fetched, df,
                   rsi_reading, score_obj, picks, alloc_in, plan, sent, printed,
                   posted, send_result>>

\* the frames a fetch may return in a run: too short, flat, rising, worthless
ScanFrames ==
    {Frame(MinCloses - 1, R(100), R(100), R(100), R(100), R(100)),
     Flat20,
     Frame(MinCloses, R(100), R(100), R(100), R(100), R(150)),
     Frame(MinCloses, R(100), R(100), R(100), R(50), R(0))}

ScanReadings == {[outcome |-> "nan", value |-> 0], [outcome |-> "value", value |-> 80]}

\* one pass of the for loop, lines 139-158.  fetch_history (lines 28-42) gives
\* None for an empty download and for any exception, else the frame.
ScanSymbol ==
    /\ pc = "pick_top_symbols"
    /\ idx <= Len(UNIVERSE)
    /\ LET s == Upper(Strip(UNIVERSE[idx]))
       IN  \/ /\ fetched' = Append(fetched, [symbol |-> s, data |-> FALSE, closes |-> 0])
              /\ UNCHANGED <<df, rsi_reading, score_obj, results>>
           \/ \E frame \in ScanFrames, reading \in ScanReadings :
                /\ df' = frame
                /\ rsi_reading' = reading
                /\ fetched' = Append(fetched,
                                     [symbol |-> s, data |-> TRUE, closes |-> Len(frame)])
                /\ score_obj' = compute_score(frame, reading)
                /\ results' = IF score_obj' = None THEN results
                              ELSE Append(results, [symbol |-> s] @@ score_obj')
    /\ idx' = idx + 1
    /\ UNCHANGED <<pc, raw_budget, budget, exit_status, UNIVERSE, TOP_N, TAKE_PROFIT_PCT,
                   STOP_LOSS_PCT, TELEGRAM_TOKEN, TELEGRAM_CHAT_ID, picks, alloc_in,
                   plan, sent, printed, posted, send_result>>

RowOrders(n) == {f \in [1..n -> 1..n] : \A i, j \in 1..n : f[i] = f[j] => i = j}

\* dfres.sort_values("score", ascending=False), lines 165-166: the default
\* kind is quicksort, which numpy documents as not stable, so rows of equal
\* score come out in any order
SortValuesDescending(rows) ==
    {[i \in 1..Len(rows) |-> rows[f[i]]] : f \in
        {g \in RowOrders(Len(rows)) :
            \A i \in 1..(Len(rows) - 1) : RLe(rows[g[i + 1]].score, rows[g[i]].score)}}

HeadRows_OneMore(rows, n) == SubSeq(rows, 1, IF n + 1 < Len(rows) THEN n + 1 ELSE Len(rows))

\* DataFrame.head(n), line 167: the first n rows, or all but the last -n
HeadRows(rows, n) ==
    IF n >= 0 THEN SubSeq(rows, 1, IF n < Len(rows) THEN n ELSE Len(rows))
    ELSE SubSeq(rows, 1, IF Len(rows) + n > 0 THEN Len(rows) + n ELSE 0)

\* lines 160-170, and the branch of plan_trades_from_budget at line 238
RankResults ==
    /\ pc = "pick_top_symbols"
    /\ idx > Len(UNIVERSE)
    /\ IF results = <<>>
       THEN picks' = <<>>
       ELSE \E sorted \in SortValuesDescending(results) : picks' = HeadRows(sorted, TOP_N)
    /\ pc' = IF picks' = <<>> THEN "no_picks" ELSE "allocate_budget"
    /\ UNCHANGED <<raw_budget, budget, exit_status, UNIVERSE, TOP_N, TAKE_PROFIT_PCT,
                   STOP_LOSS_PCT, TELEGRAM_TOKEN, TELEGRAM_CHAT_ID, idx, fetched, df,
                   rsi_reading, score_obj, results, alloc_in, plan, sent, printed,
                   posted, send_result>>

(***************************************************************************)
(* format_message and send_telegram, lines 202-231, and the rest of        *)
(* plan_trades_from_budget, lines 238-247.  A message is kept as what it   *)
(* was rendered from, not as characters.                                   *)
(***************************************************************************)
NoSuitablePicks == [kind |-> "No suitable picks found today.", budget |-> Unset, plan |-> <<>>]

format_message(b, pl) ==
    IF pl = <<>>
    THEN [kind |-> "No picks found for the universe.", budget |-> Unset, plan |-> <<>>]
    ELSE [kind |-> "Budget, Picks, Note", budget |-> b, plan |-> pl]

\* os.getenv gave None (<<>>) or a string (<<s>>); None and "" are falsy
Falsy(opt) == opt = <<>> \/ opt[1] = ""

Configured == ~Falsy(TELEGRAM_TOKEN) /\ ~Falsy(TELEGRAM_CHAT_ID)

\* send_telegram(msg), lines 217-231; delivered says whether requests.post
\* and raise_for_status went through
SendTelegram(msg, delivered) ==
    /\ sent' = Append(sent, msg)
    /\ IF ~Configured
       THEN /\ printed' = Append(printed, msg)
            /\ posted' = posted
            /\ send_result' = <<FALSE>>
       ELSE IF delivered
       THEN /\ posted' = Append(posted, msg)
            /\ printed' = printed
            /\ send_result' = <<TRUE>>
       ELSE /\ printed' = Append(printed, msg)
            /\ posted' = posted
            /\ send_result' = <<FALSE>>

\* lines 238-242
ReportNoPicks ==
    /\ pc = "no_picks"
    /\ \E delivered \in BOOLEAN : SendTelegram(NoSuitablePicks, delivered)
    /\ pc' = "done"
    /\ exit_status' = <<0>>
    /\ UNCHANGED <<raw_budget, budget, UNIVERSE, TOP_N, TAKE_PROFIT_PCT,
                   STOP_LOSS_PCT, TELEGRAM_TOKEN, TELEGRAM_CHAT_ID, idx, fetched, df,
                   rsi_reading, score_obj, results, picks, alloc_in, plan>>

\* lines 244-247
ReportPlan ==
    /\ pc = "format_message"
    /\ \E delivered \in BOOLEAN : SendTelegram(format_message(budget, plan), delivered)
    /\ pc' = "done"
    /\ exit_status' = <<0>>
    /\ UNCHANGED <<raw_budget, budget, UNIVERSE, TOP_N, TAKE_PROFIT_PCT,
                   STOP_LOSS_PCT, TELEGRAM_TOKEN, TELEGRAM_CHAT_ID, idx, fetched, df,
                   rsi_reading, score_obj, results, picks, alloc_in, plan>>

(***************************************************************************)
(* Spec: one run of the script.                                            *)
(***************************************************************************)
MaxUniverse == 2
MaxTopN == 2

RawSymbols == {<<" ", "a", " ">>, <<"B">>}

\* TELEGRAM_TOKEN and TELEGRAM_CHAT_ID: unset, set to "", set
TelegramSettings ==
    {<<<<>>, <<"chat">>>>, <<<<"token">>, <<"">>>>, <<<<"token">>, <<"chat">>>>}

\* UNIVERSE is os.getenv(...).split(","): at least one entry
Universes == SeqsUpTo(RawSymbols, MaxUniverse) \ {<<>>}

Init ==
    /\ pc = "main"
    /\ UNIVERSE \in Universes
    /\ TOP_N \in -1..MaxTopN
    /\ TAKE_PROFIT_PCT = DefaultTakeProfit
    /\ STOP_LOSS_PCT = DefaultStopLoss
    /\ \E setting \in TelegramSettings :
        /\ TELEGRAM_TOKEN = setting[1]
        /\ TELEGRAM_CHAT_ID = setting[2]
    /\ NoInput /\ NoScan /\ NoFrame /\ NoReport

Next ==
    \/ ParseArgs
    \/ PromptBudget
    \/ EnterPlanTrades
    \/ ScanSymbol
    \/ RankResults
    \/ ReportNoPicks
    \/ AllocateBudget
    \/ ReportPlan

Spec == Init /\ [][Next]_vars

RankDone == pc \in {"no_picks", "allocate_budget", "format_message", "done", "crashed"}

\* the universe entries whose fetch returned data with at least 20 closes
Scorable == SelectSeq(fetched, LAMBDA e : e.data /\ e.closes >= 20)

\* C1: for top_n >= 0 the picks number min(top_n, V), V the entries whose fetch
\* returned data with at least 20 closes; they are ordered by score, highest
\* first; an entry without data or with too few closes is skipped and every
\* other entry is scored.
C1_TopPicks ==
    /\ Len(results) = Len(Scorable)
    /\ \A k \in 1..Len(results) :
        /\ results[k].symbol = Scorable[k].symbol
        /\ results[k].symbol \in {<<"A">>, <<"B">>}
    /\ RankDone =>
        /\ Len(fetched) = Len(UNIVERSE)
        /\ TOP_N >= 0 =>
            Len(picks) = IF TOP_N < Len(Scorable) THEN TOP_N ELSE Len(Scorable)
        /\ \A i \in 1..(Len(picks) - 1) : RLe(picks[i + 1].score, picks[i].score)
        /\ \A i \in 1..Len(picks) : \E k \in 1..Len(results) : picks[i] = results[k]

C1_Witness ==
    /\ RankDone
    /\ TOP_N = 2
    /\ Len(UNIVERSE) = 2
    /\ ~fetched[1].data
    /\ Len(picks) = 1
    /\ picks[1].symbol = <<"B">>

\* rows by score, highest first, rows of equal score in their order in rows
StableDescending(rows) ==
    LET g == CHOOSE f \in RowOrders(Len(rows)) :
                 \A i, j \in 1..Len(rows) :
                     i < j => \/ RLt(rows[f[j]].score, rows[f[i]].score)
                              \/ (rows[f[j]].score = rows[f[i]].score /\ f[i] < f[j])
    IN  [i \in 1..Len(rows) |-> rows[g[i]]]

\* C2 as stated: symbols of equal score are ordered by their position in the
\* universe, so the picks are determined by the universe order and the scores.
C2_AsStated ==
    (RankDone /\ TOP_N >= 0) => picks = HeadRows(StableDescending(results), TOP_N)

InvalidTexts == {<<>>, <<".">>, <<"9", "x">>, <<"1", ".", "2", ".", "3">>, <<"1", " ", "2">>}

\* C6: once an invalid budget text has been read the process has exited with a
\* non-zero status, no price series was fetched, plan_trades_from_budget was
\* not entered and send_telegram was not called.
C6_InvalidBudgetExits ==
    (raw_budget \in InvalidTexts /\ pc \notin {"main", "input"}) =>
        /\ pc = "exited"
        /\ exit_status \in {<<1>>, <<2>>}
        /\ budget = Unset
        /\ fetched = <<>>
        /\ results = <<>>
        /\ sent = <<>>
        /\ posted = <<>>

C6_Witness ==
    /\ pc = "exited"
    /\ raw_budget = <<"1", ".", "2", ".", "3">>
    /\ exit_status = <<1>>
    /\ sent = <<>>

\* Beside C7: every run that reaches the end of plan_trades_from_budget has
\* handed over exactly one message, as C7 says.
C7_RunsThatReturn ==
    pc = "done" =>
        /\ exit_status = <<0>>
        /\ Len(sent) = 1
        /\ (sent[1] = NoSuitablePicks) <=> (picks = <<>>)
        /\ ~Configured => (printed = sent /\ send_result = <<FALSE>>)
        /\ send_result = <<FALSE>> => printed = sent
        /\ send_result = <<TRUE>> => (posted = sent /\ printed = <<>>)

\* C7 as stated: a run of plan_trades_from_budget ends normally after handing
\* exactly one message to send_telegram; the message is the no-picks message
\* exactly when there are no picks; without configuration or on a failed
\* delivery send_telegram prints the message and returns False.
C7_AsStated ==
    pc \in {"done", "crashed"} =>
        /\ pc = "done"
        /\ exit_status = <<0>>
        /\ Len(sent) = 1
        /\ (sent[1] = NoSuitablePicks) <=> (picks = <<>>)
        /\ ~Configured => (printed = sent /\ send_result = <<FALSE>>)
        /\ send_result = <<FALSE>> => printed = sent
        /\ send_result = <<TRUE>> => (posted = sent /\ printed = <<>>)

=============================================================================
